---- MODULE Spec2Model ----
(***************************************************************************)
(* A model of celltypist: the Classifier pipeline of classifier.py          *)
(* (construction, celltype, over_cluster, majority_vote) and the trainer    *)
(* of train.py (train, _SGDClassifier).                                     *)
(*                                                                          *)
(* Number representation.  Expression values, means and scales are          *)
(* fixed-point numbers with three decimals (9210 stands for 9.210).  A      *)
(* standardized value is a fraction <<n, d>> with d > 0, so that            *)
(* (x - mean) / scale and the comparison with the clip bound are exact.     *)
(* Gene names are the numbers 1..NGenes; class labels are numbered in       *)
(* their lexicographic order.                                               *)
(***************************************************************************)
EXTENDS Integers, Sequences, FiniteSets, TLC

VARIABLES
    \* ---- Classifier (classifier.py) ----
    model,          \* the loaded Model object shared by every Classifier
    adata,          \* Classifier.adata, the input dataset as read from the file
    indata,         \* Classifier.indata, the matrix used for prediction
    indata_genes,   \* Classifier.indata_genes
    clf,            \* "none" | "ready" | "failed": the current Classifier object
    err,            \* the exception raised by the last operation, or "none"
    phases,         \* the stages of the last celltype() call that were executed
    result,         \* the AnnotationResult returned by the last celltype() call
    runs            \* number of celltype() calls made on the shared model

clfVars == <<model, adata, indata, indata_genes, clf, err, phases, result, runs>>

VARIABLES
    \* ---- Classifier.majority_vote ----
    predictions,    \* the AnnotationResult: the columns of predicted_labels
    vote_arg,       \* the over_clustering vector of the last call
    vote_err,       \* the exception raised by the last call, or "none"
    votes           \* number of majority_vote() calls made

voteVars == <<predictions, vote_arg, vote_err, votes>>

VARIABLES
    \* ---- Classifier.over_cluster ----
    oc_adata,       \* Classifier.adata as far as over_cluster() reads and writes it
    oc_arg,         \* the resolution argument of the last call (0 for None)
    leiden,         \* the resolution handed to the clustering routine by the last call
    graphs_built,   \* number of neighbor graphs constructed
    oc_calls        \* number of over_cluster() calls made

ocVars == <<oc_adata, oc_arg, leiden, graphs_built, oc_calls>>

VARIABLES
    \* ---- train (train.py) ----
    t_in,           \* the arguments of the train() call
    t_pc,           \* the stage train() has completed, or "failed"
    t_err,          \* the exception train() raised, or "none"
    t_indata,       \* indata before scaling: runs of identical cells
    t_genes,        \* genes
    t_scaled,       \* indata from line 159 on: the standardized matrix
    t_scaler,       \* the StandardScaler
    t_classifier,   \* the SGDClassifier returned by the last _SGDClassifier call
    t_model         \* the Model returned

trainVars == <<t_in, t_pc, t_err, t_indata, t_genes, t_scaled, t_scaler,
               t_classifier, t_model>>

vars == <<clfVars, voteVars, ocVars, trainVars>>

-----------------------------------------------------------------------------
(* Bounds *)

NGenes == 3     \* gene names are 1..NGenes
MaxRuns == 2    \* celltype() calls made on one loaded model
MaxCells == 4   \* cells of an AnnotationResult handed to majority_vote()
MaxOcCalls == 2 \* over_cluster() calls made on one Classifier
MaxTrainRuns == 3 \* groups of identical cells in a training matrix

Genes == 1..NGenes

-----------------------------------------------------------------------------
(* Sequence helpers (numpy indexing) *)

Range(s) == {s[i] : i \in 1..Len(s)}

\* s[idx] for an index array idx (numpy fancy indexing, 1-based here)
Take(s, idx) == [j \in 1..Len(idx) |-> s[idx[j]]]

\* the position of x in s (s holds x exactly once)
IndexOf(s, x) == CHOOSE i \in 1..Len(s) : s[i] = x

\* the indices 1..n that satisfy the mask, ascending (numpy where(mask)[0])
RECURSIVE WhereUpTo(_, _)
WhereUpTo(mask, n) ==
    IF n = 0 THEN <<>>
    ELSE IF mask[n] THEN Append(WhereUpTo(mask, n - 1), n)
         ELSE WhereUpTo(mask, n - 1)

Where(mask) == WhereUpTo(mask, Len(mask))

RECURSIVE SumSeq(_)
SumSeq(s) == IF s = <<>> THEN 0 ELSE s[1] + SumSeq(Tail(s))

\* the non-empty sequences of distinct elements of S
DistinctSeqs(S) ==
    UNION {{s \in [1..n -> S] : \A i, j \in 1..n : i # j => s[i] # s[j]} :
           n \in 1..Cardinality(S)}

Abs(x) == IF x < 0 THEN -x ELSE x

-----------------------------------------------------------------------------
(* Fractions: a real number is <<n, d>> in lowest terms, d > 0 *)

RECURSIVE Gcd(_, _)
Gcd(a, b) == IF b = 0 THEN a ELSE Gcd(b, a % b)

Norm(n, d) == LET g == Gcd(Abs(n), d) IN <<n \div g, d \div g>>

Fixed(x) == Norm(x, 100)                           \* the fixed-point number x
QSub(p, q) == Norm(p[1] * q[2] - q[1] * p[2], p[2] * q[2])
QAdd(p, q) == Norm(p[1] * q[2] + q[1] * p[2], p[2] * q[2])
QDiv(p, q) == Norm(p[1] * q[2], p[2] * q[1])       \* q > 0
QMulInt(p, k) == Norm(p[1] * k, p[2])
QGt(p, q) == p[1] * q[2] > q[1] * p[2]

-----------------------------------------------------------------------------
(* Expression values *)

TargetSum == 10000      \* counts per cell after normalization
ClipMax == 10           \* upper bound of the standardized values

\* numpy expm1 at the values the sample datasets hold, rounded to a whole count:
\* 0.00, 7.82, 8.52 and 9.21 are log1p of 0, 2500, 5000 and 10000 counts
Expm1(v) ==
    CASE v = 0   -> 0
      [] v = 782 -> 2500
      [] v = 852 -> 5000
      [] v = 921 -> 10000
      [] v < 0   -> -1

\* numpy log1p at the normalized counts
Log1p(c) ==
    CASE c = 0     -> 0
      [] c = 2500  -> 782
      [] c = 5000  -> 852
      [] c = 10000 -> 921

\* np.abs(np.expm1(row).sum() - 10000) > 1
RowInvalid(row) ==
    Abs(SumSeq([j \in 1..Len(row) |-> Expm1(row[j])]) - TargetSum) > 1

Min(S) == CHOOSE x \in S : \A y \in S : x <= y

MatrixMin(X) == Min(UNION {Range(X[c]) : c \in 1..Len(X)})

\* scanpy normalize_total(target_sum = 1e4) followed by log1p; a cell without
\* counts is left at zero
NormalizeLog1p(X) ==
    [c \in 1..Len(X) |->
        LET total == SumSeq(X[c])
        IN  [j \in 1..Len(X[c]) |->
                IF total = 0 THEN 0 ELSE Log1p((X[c][j] * TargetSum) \div total)]]

\* the matrix as fractions
AsReal(X) == [c \in 1..Len(X) |-> [j \in 1..Len(X[c]) |-> Fixed(X[c][j])]]

-----------------------------------------------------------------------------
(* The input datasets the Classifier is constructed on *)

\* a cell's log1p expression of every gene
ProfileBoth == [g \in Genes |-> IF g \in {1, 2} THEN 852 ELSE 0]
ProfileFirst == [g \in Genes |-> IF g = 1 THEN 921 ELSE 0]
ProfileLast == [g \in Genes |-> IF g = NGenes THEN 921 ELSE 0]

CellProfiles == {ProfileBoth, ProfileFirst, ProfileLast}

\* the profiles of the two cells of a dataset
CellPairs ==
    { <<ProfileBoth, ProfileBoth>>, <<ProfileBoth, ProfileLast>>,
      <<ProfileFirst, ProfileBoth>>, <<ProfileLast, ProfileFirst>> }

\* a cell's raw counts of every gene
CountProfiles ==
    { [g \in Genes |-> IF g \in {1, 2} THEN 1 ELSE 0],
      [g \in Genes |-> IF g = NGenes THEN 3 ELSE 0] }

RowOf(profile, names) == [j \in 1..Len(names) |-> profile[names[j]]]

ScaledRow(names) == [j \in 1..Len(names) |-> -100]

Dataset(kind, names, X, has_raw, raw_X) ==
    [kind |-> kind, var_names |-> names, X |-> X,
     has_raw |-> has_raw, raw_X |-> raw_X, raw_var_names |-> names]

NoDataset == Dataset("none", <<>>, <<>>, FALSE, <<>>)

\* every gene in ascending and in descending order
FullLists == { [j \in 1..NGenes |-> j], [j \in 1..NGenes |-> NGenes + 1 - j] }

\* .h5ad files holding log1p normalized expression in .X
H5adDatasets ==
    { Dataset("h5ad", names, <<RowOf(pp[1], names), RowOf(pp[2], names)>>, FALSE, <<>>) :
        names \in DistinctSeqs(Genes), pp \in CellPairs }

\* .h5ad files holding scaled expression in .X, with or without .raw
ScaledDatasets ==
    { Dataset("h5ad", names, <<ScaledRow(names), ScaledRow(names)>>, has_raw,
              IF has_raw THEN <<RowOf(p, names), RowOf(p, names)>> ELSE <<>>) :
        names \in FullLists, p \in CellProfiles, has_raw \in BOOLEAN }

\* .csv, .txt, .tsv, .tab and .mtx files holding raw counts
TabularDatasets ==
    { Dataset("tabular", names, <<RowOf(p1, names), RowOf(p2, names)>>, FALSE, <<>>) :
        names \in FullLists, p1 \in CountProfiles, p2 \in CountProfiles }

\* any other file name
OtherDatasets == { Dataset("other", <<>>, <<>>, FALSE, <<>>) }

Datasets == H5adDatasets \cup ScaledDatasets \cup TabularDatasets \cup OtherDatasets

-----------------------------------------------------------------------------
(* The trained model: per gene, the mean and scale of the training-time     *)
(* standardization and one weight per class                                 *)

TrainedMean(g) == 300 * g
TrainedScale(g) == 25 * g
TrainedCoef(g) == <<g, 3 - g, 0>>
TrainedIntercept == <<0, 0, 1>>

\* a model trained on the genes 1..F, as loaded from its file
LoadedModel(F) ==
    [ features      |-> [i \in 1..F |-> i],
      coef_         |-> [i \in 1..F |-> TrainedCoef(i)],
      n_features_in_ |-> F,
      intercept_    |-> TrainedIntercept,
      mean_         |-> [i \in 1..F |-> TrainedMean(i)],
      scale_        |-> [i \in 1..F |-> TrainedScale(i)] ]

NoResult == [made |-> FALSE, predicted_labels |-> <<>>, cell_count |-> 0]

InitClassifier ==
    /\ \E F \in 1..NGenes : model = LoadedModel(F)
    /\ adata = NoDataset
    /\ indata = <<>>
    /\ indata_genes = <<>>
    /\ clf = "none"
    /\ err = "none"
    /\ phases = <<>>
    /\ result = NoResult
    /\ runs = 0

-----------------------------------------------------------------------------
(* Classifier.__init__ *)

\* the constructor raises: no Classifier object comes into being
ConstructFails(e) ==
    [clf |-> "failed", err |-> e, adata |-> NoDataset,
     indata |-> <<>>, indata_genes |-> <<>>]

ConstructDone(d, X, names) ==
    [clf |-> "ready", err |-> "none", adata |-> d,
     indata |-> AsReal(X), indata_genes |-> names]

\* what the constructor makes of the dataset d
ConstructOutcome(d) ==
    CASE d.kind = "tabular" ->
              LET X == NormalizeLog1p(d.X)
              IN  ConstructDone([d EXCEPT !.X = X], X, d.var_names)
         [] d.kind = "h5ad" ->
              IF MatrixMin(d.X) < 0 /\ ~d.has_raw
              THEN ConstructFails("Exception: no .raw attribute")
              ELSE LET X == IF MatrixMin(d.X) < 0 THEN d.raw_X ELSE d.X
                       names == IF MatrixMin(d.X) < 0 THEN d.raw_var_names
                                ELSE d.var_names
                   IN  IF RowInvalid(X[1])
                       THEN ConstructFails("ValueError: invalid expression matrix")
                       ELSE ConstructDone(d, X, names)
         [] OTHER ->
              ConstructFails("ValueError: invalid input file type")

\* the outcomes of the constructor over all the datasets
ConstructOutcomes == { ConstructOutcome(d) : d \in Datasets }

\* A Classifier is constructed on a dataset when there is none yet, or when
\* the current one has been used and the model is to be used again.
Construct ==
    /\ clf # "ready" \/ phases # <<>>
    /\ runs < MaxRuns
    /\ \E o \in ConstructOutcomes :
        /\ clf' = o.clf
        /\ err' = o.err
        /\ adata' = o.adata
        /\ indata' = o.indata
        /\ indata_genes' = o.indata_genes
        /\ phases' = <<>>
        /\ result' = NoResult
        /\ UNCHANGED <<model, runs>>

-----------------------------------------------------------------------------
(* Model.predict_labels_and_prob (models.py): the Linear Classifier *)

RECURSIVE QSum(_)
QSum(s) == IF s = <<>> THEN <<0, 1>> ELSE QAdd(s[1], QSum(Tail(s)))

\* the raw score of class c for one standardized row: Z . W^T + b
Score(row, m, c) ==
    QAdd(QSum([j \in 1..Len(row) |-> QMulInt(row[j], m.coef_[j][c])]),
         <<m.intercept_[c], 1>>)

\* arg-max over the classes, the lowest-indexed class winning a tie
PredictRow(row, m) ==
    LET classes == 1..Len(m.intercept_)
    IN  Min({c \in classes : \A o \in classes : ~QGt(Score(row, m, o), Score(row, m, c))})

PredictLabels(X, m) == [c \in 1..Len(X) |-> PredictRow(X[c], m)]

-----------------------------------------------------------------------------
(* Classifier.celltype *)

\* np.isin(element, test_elements)
IsIn(element, test_elements) ==
    [j \in 1..Len(element) |-> element[j] \in Range(test_elements)]

\* (mutant) the positions of the given genes in ascending order, that is in
\* the model's order instead of the order of the genes given
FeatureIndexSorted(features, genes) ==
    Where(IsIn(features, genes))

\* the positions in the model's feature list of the given genes
\* (DataFrame(features).reset_index().set_index('features').loc[genes, 'index'])
FeatureIndex(features, genes) ==
    [j \in 1..Len(genes) |-> IndexOf(features, genes[j])]

\* (mutant) values are clipped on both sides, to -10 and to 10
ClipValueBothSides(z) ==
    IF QGt(z, <<ClipMax, 1>>) THEN <<ClipMax, 1>>
    ELSE IF QGt(<<-ClipMax, 1>>, z) THEN <<-ClipMax, 1>>
    ELSE z

\* indata[indata > 10] = 10
ClipValue(z) == IF QGt(z, <<ClipMax, 1>>) THEN <<ClipMax, 1>> ELSE z

\* (indata - means_) / sds_, clipped
Standardize(X, means_, sds_) ==
    [c \in 1..Len(X) |->
        [j \in 1..Len(X[c]) |->
            ClipValue(QDiv(QSub(X[c][j], Fixed(means_[j])), Fixed(sds_[j])))]]

\* (mutant) the weights are cut to the first columns instead of reordered
AlignedModelLeading(m, lr_idx) ==
    [m EXCEPT !.n_features_in_ = Len(lr_idx),
              !.features = Take(m.features, lr_idx),
              !.coef_ = SubSeq(m.coef_, 1, Len(lr_idx))]

\* the model after lines 258-260 have run
AlignedModel(m, lr_idx) ==
    [m EXCEPT !.n_features_in_ = Len(lr_idx),
              !.features = Take(m.features, lr_idx),
              !.coef_ = Take(m.coef_, lr_idx)]

Celltype ==
    /\ clf = "ready"
    /\ runs < MaxRuns
    /\ LET k_x      == IsIn(indata_genes, model.features)
           k_x_idx  == Where(k_x)
           X1       == [c \in 1..Len(indata) |-> Take(indata[c], k_x_idx)]
           genes1   == Take(indata_genes, k_x_idx)
           lr_idx   == FeatureIndex(model.features, genes1)
           means_   == Take(model.mean_, lr_idx)
           sds_     == Take(model.scale_, lr_idx)
           X2       == Standardize(X1, means_, sds_)
           model1   == AlignedModel(model, lr_idx)
       IN  /\ indata' = X2
           /\ indata_genes' = genes1
           /\ model' = model1
           /\ runs' = runs + 1
           /\ \/ \* the prediction returns
                 /\ Len(lr_idx) > 0
                 /\ phases' = <<"match", "scale", "restrict", "predict">>
                 /\ result' = [made |-> TRUE,
                               predicted_labels |-> PredictLabels(X2, model1),
                               cell_count |-> Len(X2)]
                 /\ err' = "none"
              \/ \* no column is left: the numeric library rejects the matrix
                 /\ Len(lr_idx) = 0
                 /\ phases' = <<"match", "scale", "restrict">>
                 /\ result' = NoResult
                 /\ err' = "ValueError: 0 feature(s)"
           /\ UNCHANGED <<adata, clf>>

-----------------------------------------------------------------------------
(* Classifier.majority_vote *)

Labels == 1..3          \* the class labels "A", "B", "C" in lexicographic order
Clusters == 1..2        \* the over-clustering cluster ids

SeqsUpTo(S, n) == UNION {[1..k -> S] : k \in 0..n}

Voted(p) == p.majority_voting # <<>>

InitVote ==
    /\ \E labels \in SeqsUpTo(Labels, MaxCells) \ {<<>>} :
          predictions = [predicted_labels |-> labels,
                         over_clustering |-> <<>>,
                         majority_voting |-> <<>>]
    /\ vote_arg = <<>>
    /\ vote_err = "none"
    /\ votes = 0

\* pd.crosstab(labels, over_clustering): the count of every label (row) in
\* every cluster (column)
Crosstab(labels, over_clustering) ==
    [l \in Range(labels), k \in Range(over_clustering) |->
        Cardinality({i \in 1..Len(labels) : labels[i] = l /\ over_clustering[i] = k})]

\* (mutant) the last of the rows that hold the column's maximum
IdxMaxLast(table, rows, k) ==
    CHOOSE l \in rows :
        /\ \A o \in rows : table[o, k] <= table[l, k]
        /\ \A o \in rows : table[o, k] = table[l, k] => o <= l

\* DataFrame.idxmax() for column k: the first of the rows, which crosstab
\* sorts, that hold the column's maximum
IdxMax(table, rows, k) ==
    Min({l \in rows : \A o \in rows : table[o, k] <= table[l, k]})

\* (mutant) a longer over_clustering vector is accepted
LengthsMatchOrLonger(labels, over_clustering) ==
    Len(over_clustering) >= Len(labels)

\* crosstab builds a frame over the labels' index and `majority.index = ...`
\* replaces an index: both raise unless the two vectors are equally long
LengthsMatch(labels, over_clustering) ==
    Len(over_clustering) = Len(labels)

\* an error aborts the run: no further call follows it
MajorityVote ==
    /\ vote_err = "none"
    /\ \E over_clustering \in SeqsUpTo(Clusters, MaxCells + 1) :
        LET labels == predictions.predicted_labels
            table == Crosstab(labels, over_clustering)
            majority == [i \in 1..Len(labels) |->
                            IdxMax(table, Range(labels), over_clustering[i])]
        IN  /\ vote_arg' = over_clustering
            /\ votes' = votes + 1
            /\ IF ~LengthsMatch(labels, over_clustering)
               THEN /\ vote_err' = "ValueError: length mismatch"
                    /\ UNCHANGED predictions
               ELSE IF Voted(predictions)
               THEN \* join(): the columns are already there
                    /\ vote_err' = "ValueError: columns overlap"
                    /\ UNCHANGED predictions
               ELSE /\ vote_err' = "none"
                    /\ predictions' =
                          [predictions EXCEPT
                              !.over_clustering = [i \in 1..Len(labels) |-> over_clustering[i]],
                              !.majority_voting = majority]

-----------------------------------------------------------------------------
(* Classifier.over_cluster *)

CellCounts == {100, 4999, 5000, 19999, 20000, 39999, 40000, 100000}
Resolutions == {0, 1, 12, 50}       \* 0 stands for None

InitOverCluster ==
    /\ \E n \in CellCounts, g \in BOOLEAN, col \in BOOLEAN :
          oc_adata = [n_obs |-> n,
                      connectivities |-> IF g THEN 1 ELSE 0,
                      obs_over_clustering |-> col]
    /\ oc_arg = 0
    /\ leiden = 0
    /\ graphs_built = 0
    /\ oc_calls = 0

\* (mutant) the thresholds compared with <= instead of <
DefaultResolutionInclusive(n) ==
    IF n <= 5000 THEN 5
    ELSE IF n <= 20000 THEN 10
    ELSE IF n <= 40000 THEN 15
    ELSE 20

DefaultResolution(n) ==
    IF n < 5000 THEN 5
    ELSE IF n < 20000 THEN 10
    ELSE IF n < 40000 THEN 15
    ELSE 20

\* the graph is identified by the number of the construction that made it
\* (1 for a graph the dataset came with)
\* (mutant) the stored graph is not looked at: every call builds
GraphMissingAlways(a) == a.connectivities >= 0

\* line 298: 'connectivities' not in adata.obsp
GraphMissing(a) == a.connectivities = 0

OverCluster ==
    /\ oc_calls < MaxOcCalls
    /\ \E resolution \in Resolutions :
        LET build == GraphMissing(oc_adata)
            used == IF resolution = 0 THEN DefaultResolution(oc_adata.n_obs)
                    ELSE resolution
        IN  /\ oc_arg' = resolution
            /\ leiden' = used
            /\ graphs_built' = IF build THEN graphs_built + 1 ELSE graphs_built
            /\ oc_adata' = [oc_adata EXCEPT
                              !.connectivities = IF build THEN graphs_built + 2 ELSE @,
                              !.obs_over_clustering = FALSE]
            /\ oc_calls' = oc_calls + 1

-----------------------------------------------------------------------------
(* train.py: the training data                                              *)
(*                                                                          *)
(* The training matrix is kept as a sequence of runs, each a row and the    *)
(* number of consecutive cells that hold it, so that a matrix of more than  *)
(* a hundred cells (the least that lets a standardized value pass 10) stays *)
(* small.  The label of a cell is the number of the gene it expresses plus  *)
(* one.                                                                     *)

ManyCells == 101

\* the cell that expresses gene k alone (no gene for k = 0)
MarkerRow(k) == [j \in 1..NGenes |-> IF j = k THEN 921 ELSE 0]

TrainingMatrices ==
    UNION {{ [r \in 1..len |->
                 [row |-> MarkerRow(ks[r]), label |-> ks[r] + 1,
                  n |-> IF big /\ r = len THEN ManyCells ELSE 1]] :
             ks \in [1..len -> 0..NGenes], big \in BOOLEAN } :
           len \in 1..MaxTrainRuns}

Params(mini_batch, batch_number, batch_size, epochs, feature_selection, top_genes) ==
    [mini_batch |-> mini_batch, batch_number |-> batch_number,
     batch_size |-> batch_size, epochs |-> epochs,
     feature_selection |-> feature_selection, top_genes |-> top_genes,
     extra_labels |-> 0, missing_genes |-> 0]

TrainParams ==
    { Params(FALSE, 100, 1000, 10, FALSE, 500),
      Params(FALSE, 100, 1000, 10, TRUE, 1),
      Params(FALSE, 100, 1000, 10, TRUE, 2),
      Params(FALSE, 100, 1000, 10, TRUE, 3),
      Params(TRUE, 1, 2, 2, FALSE, 500),
      Params(TRUE, 2, 2, 0, FALSE, 500),
      Params(TRUE, 2, 2, 0, TRUE, 1),
      Params(TRUE, 1, 3, 2, FALSE, 500),
      Params(TRUE, 100, 1000, 10, FALSE, 500),
      [Params(FALSE, 100, 1000, 10, FALSE, 500) EXCEPT !.extra_labels = 1],
      [Params(FALSE, 100, 1000, 10, FALSE, 500) EXCEPT !.missing_genes = 1] }

\* the labels argument: one label per cell, as runs
LabelsOf(X, extra) ==
    [r \in 1..Len(X) |-> [label |-> X[r].label, n |-> X[r].n]]
        \o [r \in 1..extra |-> [label |-> 1, n |-> 1]]

\* the genes argument
GenesOf(missing) == [j \in 1..(NGenes - missing) |-> j]

NoScaler == [fitted |-> FALSE, mean_ |-> <<>>, var_ |-> <<>>, scale_ |-> <<>>,
             n_features_in_ |-> 0]

NoClassifier == [made |-> FALSE, fitted |-> FALSE, coef_ |-> <<>>,
                 partial_fits |-> 0, features |-> <<>>]

NoModel == [made |-> FALSE, classifier |-> NoClassifier, scaler |-> NoScaler]

InitTrain ==
    /\ \E X \in TrainingMatrices, p \in TrainParams :
          t_in = [X |-> X, labels |-> LabelsOf(X, p.extra_labels),
                  genes |-> GenesOf(p.missing_genes), params |-> p]
    /\ t_pc = "start"
    /\ t_err = "none"
    /\ t_indata = <<>>
    /\ t_genes = <<>>
    /\ t_scaled = <<>>
    /\ t_scaler = NoScaler
    /\ t_classifier = NoClassifier
    /\ t_model = NoModel

\* number of cells of a matrix or of a label vector kept as runs
RECURSIVE Cells(_)
Cells(X) == IF X = <<>> THEN 0 ELSE X[1].n + Cells(Tail(X))

TrainFails(e) ==
    /\ t_pc' = "failed"
    /\ t_err' = e

-----------------------------------------------------------------------------
(* train(): prepare and check, lines 139-149 *)

TCheck ==
    /\ t_pc = "start"
    /\ IF RowInvalid(t_in.X[1].row)
       THEN /\ TrainFails("ValueError: invalid expression matrix")
            /\ UNCHANGED <<t_indata, t_genes>>
       ELSE IF Cells(t_in.labels) # Cells(t_in.X)
       THEN /\ TrainFails("ValueError: length of training labels")
            /\ UNCHANGED <<t_indata, t_genes>>
       ELSE IF Len(t_in.genes) # Len(t_in.X[1].row)
       THEN /\ TrainFails("ValueError: number of genes")
            /\ UNCHANGED <<t_indata, t_genes>>
       ELSE /\ t_pc' = "checked"
            /\ t_err' = "none"
            /\ t_indata' = [r \in 1..Len(t_in.X) |-> [row |-> t_in.X[r].row, n |-> t_in.X[r].n]]
            /\ t_genes' = t_in.genes
    /\ UNCHANGED <<t_in, t_scaled, t_scaler, t_classifier, t_model>>

-----------------------------------------------------------------------------
(* train(): filter, lines 151-155 *)

\* indata.sum(axis = 0)[j]
ColSum(X, j) == SumSeq([r \in 1..Len(X) |-> X[r].n * X[r].row[j]])

\* (mutant) a column is kept when the first cell expresses it
ExpressedInFirstCell(X) == [j \in 1..Len(X[1].row) |-> X[1].row[j] # 0]

\* the columns that are kept: ~flag
Expressed(X) == [j \in 1..Len(X[1].row) |-> ColSum(X, j) # 0]

TakeColumns(X, idx) == [r \in 1..Len(X) |-> [X[r] EXCEPT !.row = Take(@, idx)]]

TFilter ==
    /\ t_pc = "checked"
    /\ t_pc' = "filtered"
    /\ LET keep == Where(Expressed(t_indata))
       IN  /\ t_indata' = TakeColumns(t_indata, keep)
           /\ t_genes' = Take(t_genes, keep)
    /\ UNCHANGED <<t_in, t_err, t_scaled, t_scaler, t_classifier, t_model>>

-----------------------------------------------------------------------------
(* train(): scaler, lines 158-160                                           *)
(*                                                                          *)
(* For a column with N cells and sum T, the deviation of a value x from the *)
(* mean is (x * N - T) / N.  With g the greatest common divisor of the      *)
(* numerators x * N - T, d = (x * N - T) / g and S the sum of d * d over    *)
(* the cells, the variance is g * g * S / N^3 and a standardized value is   *)
(* d * sqrt(N / S).  The variance is kept as <<g, S / N^3>>, the scale      *)
(* (its square root, or 1 for a constant column) in the same form, and a    *)
(* standardized value as <<sign, p, q>>, which stands for sign * sqrt(p/q). *)

RECURSIVE GcdSeq(_)
GcdSeq(s) == IF s = <<>> THEN 0 ELSE Gcd(Abs(s[1]), GcdSeq(Tail(s)))

Sign(x) == IF x > 0 THEN 1 ELSE IF x < 0 THEN -1 ELSE 0

ColumnStats(X, j) ==
    LET N == Cells(X)
        T == ColSum(X, j)
        D == [r \in 1..Len(X) |-> X[r].row[j] * N - T]
        g == GcdSeq(D)
        d == [r \in 1..Len(X) |-> IF g = 0 THEN 0 ELSE D[r] \div g]
        S == SumSeq([r \in 1..Len(X) |-> X[r].n * d[r] * d[r]])
    IN  [N |-> N, T |-> T, g |-> g, d |-> d, S |-> S]

\* StandardScaler.fit: mean_, var_, scale_ and n_features_in_
FitScaler(X) ==
    LET cols == 1..Len(X[1].row)
        st == [j \in cols |-> ColumnStats(X, j)]
    IN  [fitted |-> TRUE,
         mean_ |-> [j \in cols |-> Norm(st[j].T, st[j].N)],
         var_ |-> [j \in cols |->
                     IF st[j].S = 0 THEN <<0, <<0, 1>>>>
                     ELSE <<st[j].g, Norm(st[j].S, st[j].N * st[j].N * st[j].N)>>],
         scale_ |-> [j \in cols |->
                     IF st[j].S = 0 THEN <<1, <<1, 1>>>>
                     ELSE <<st[j].g, Norm(st[j].S, st[j].N * st[j].N * st[j].N)>>],
         n_features_in_ |-> Len(X[1].row)]

\* StandardScaler.transform
Transform(X) ==
    [r \in 1..Len(X) |->
        [row |-> [j \in 1..Len(X[r].row) |->
                    LET st == ColumnStats(X, j)
                        f == Norm(st.d[r] * st.d[r] * st.N, st.S)
                    IN  IF st.d[r] = 0 THEN <<0, 0, 1>>
                        ELSE <<Sign(st.d[r]), f[1], f[2]>>],
         n |-> X[r].n]]

\* z > 10
AboveClip(z) == z[1] = 1 /\ z[2] > ClipMax * ClipMax * z[3]

\* (mutant) np.clip(indata, a_min = -10, a_max = 10)
ClipBothSides(z) == IF z[2] > ClipMax * ClipMax * z[3] THEN <<z[1], ClipMax * ClipMax, 1>> ELSE z

\* np.clip(indata, a_min = None, a_max = 10) for one value
ClipTrain(z) == IF AboveClip(z) THEN <<1, ClipMax * ClipMax, 1>> ELSE z

TScale ==
    /\ t_pc = "filtered"
    /\ t_pc' = "scaled"
    /\ t_scaler' = FitScaler(t_indata)
    /\ t_scaled' = Transform(t_indata)
    /\ UNCHANGED <<t_in, t_err, t_indata, t_genes, t_classifier, t_model>>

TClip ==
    /\ t_pc = "scaled"
    /\ t_pc' = "clipped"
    /\ t_scaled' = [r \in 1..Len(t_scaled) |->
                      [t_scaled[r] EXCEPT
                          !.row = [j \in 1..Len(@) |-> ClipTrain(@[j])]]]
    /\ UNCHANGED <<t_in, t_err, t_indata, t_genes, t_scaler, t_classifier, t_model>>

-----------------------------------------------------------------------------
(* _SGDClassifier, lines 95-117 *)

\* The fit itself is the library's: the weights it returns are one of these
\* patterns over the matrix's columns.
CoefPatterns == 1..3

Weight(pat, r, j, ncols) ==
    CASE pat = 1 -> j
      [] pat = 2 -> IF j = ((r - 1) % ncols) + 1 THEN 3 ELSE 1
      [] pat = 3 -> j - ncols - 1

\* coef_ has one row for two classes and one row per class otherwise
CoefRows(classes) == IF Cardinality(classes) = 2 THEN 1 ELSE Cardinality(classes)

FittedCoef(pat, classes, ncols) ==
    [r \in 1..CoefRows(classes) |-> [j \in 1..ncols |-> Weight(pat, r, j, ncols)]]

ClassesOf(labels) == {labels[r].label : r \in 1..Len(labels)}

\* (mutant) the check compares with half the batch size
InsufficientCellsHalf(no_cells, batch_size) == 2 * no_cells <= batch_size

\* line 108
InsufficientCells(no_cells, batch_size) == no_cells <= batch_size

Ceil(a, b) == (a + b - 1) \div b

\* lines 110-111: the batch starts that are swept in one epoch
Starts(no_cells, batch_size, batch_number) ==
    LET all == Ceil(no_cells, batch_size)
        kept == IF batch_number < all THEN batch_number ELSE all
    IN  [i \in 1..kept |-> (i - 1) * batch_size]

\* the outcome of one call: the exception raised, or the classifier returned.
\* In mini-batch mode the first epoch calls shuffle, a name train.py neither
\* defines nor imports, so no partial_fit is ever reached.
SGDClassifierCall(labels, ncols, p, pat) ==
    IF ~p.mini_batch
    THEN IF Cardinality(ClassesOf(labels)) < 2
         THEN [err |-> "ValueError: number of classes", classifier |-> NoClassifier]
         ELSE [err |-> "none",
               classifier |-> [made |-> TRUE, fitted |-> TRUE,
                               coef_ |-> FittedCoef(pat, ClassesOf(labels), ncols),
                               partial_fits |-> 0, features |-> <<>>]]
    ELSE IF InsufficientCells(Cells(labels), p.batch_size)
         THEN [err |-> "ValueError: fewer cells than the batch size",
               classifier |-> NoClassifier]
         ELSE IF p.epochs >= 1
              THEN [err |-> "NameError: shuffle", classifier |-> NoClassifier]
              ELSE [err |-> "none",
                    classifier |-> [made |-> TRUE, fitted |-> FALSE, coef_ |-> <<>>,
                                    partial_fits |-> 0, features |-> <<>>]]

\* train(): classifier, lines 162-164
TFit ==
    /\ t_pc = "clipped"
    /\ \E pat \in CoefPatterns :
          LET out == SGDClassifierCall(t_in.labels, Len(t_genes), t_in.params, pat)
          IN  IF out.err # "none"
              THEN TrainFails(out.err) /\ UNCHANGED t_classifier
              ELSE /\ t_pc' = "fitted"
                   /\ t_err' = "none"
                   /\ t_classifier' = out.classifier
    /\ UNCHANGED <<t_in, t_indata, t_genes, t_scaled, t_scaler, t_model>>

-----------------------------------------------------------------------------
(* train(): feature selection, lines 166-182 *)

\* (mutant) the K columns of smallest absolute weight
BottomSets(w, K) ==
    {T \in SUBSET (1..Len(w)) :
        /\ Cardinality(T) = K
        /\ \A a \in T, b \in (1..Len(w)) \ T : Abs(w[a]) <= Abs(w[b])}

\* np.argpartition(np.abs(w), -K)[-K:]: K columns of largest absolute weight;
\* which of several equal weights are taken is the partition's choice
TopSets(w, K) ==
    {T \in SUBSET (1..Len(w)) :
        /\ Cardinality(T) = K
        /\ \A a \in T, b \in (1..Len(w)) \ T : Abs(w[a]) >= Abs(w[b])}

\* np.unique: the elements in ascending order
RECURSIVE Sorted(_)
Sorted(S) == IF S = {} THEN <<>> ELSE <<Min(S)>> \o Sorted(S \ {Min(S)})

\* the sets of columns that taking one top set per row of coef_ can make
RECURSIVE TopUnions(_, _)
TopUnions(coef_, K) ==
    IF coef_ = <<>> THEN {{}}
    ELSE {T \cup U : T \in TopSets(coef_[1], K), U \in TopUnions(Tail(coef_), K)}

\* the gene_index arrays lines 170-171 can produce
GeneIndexes(coef_, K) == {Sorted(U) : U \in TopUnions(coef_, K)}

\* (mutant) K is accepted when it equals the number of genes
TooFewGenesStrict(n_genes, top_genes) == n_genes < top_genes

\* line 168
TooFewGenes(n_genes, top_genes) == n_genes <= top_genes

TSelect ==
    /\ t_pc = "fitted"
    /\ t_in.params.feature_selection
    /\ IF TooFewGenes(Len(t_genes), t_in.params.top_genes)
       THEN /\ TrainFails("ValueError: fewer genes than top_genes")
            /\ UNCHANGED <<t_genes, t_scaled, t_scaler, t_classifier>>
       ELSE IF ~t_classifier.fitted
       THEN /\ TrainFails("AttributeError: coef_")
            /\ UNCHANGED <<t_genes, t_scaled, t_scaler, t_classifier>>
       ELSE \E gene_index \in GeneIndexes(t_classifier.coef_, t_in.params.top_genes),
               pat \in CoefPatterns :
              LET out == SGDClassifierCall(t_in.labels, Len(gene_index), t_in.params, pat)
              IN  /\ t_genes' = Take(t_genes, gene_index)
                  /\ t_scaled' = TakeColumns(t_scaled, gene_index)
                  /\ IF out.err # "none"
                     THEN TrainFails(out.err) /\ UNCHANGED <<t_scaler, t_classifier>>
                     ELSE /\ t_pc' = "selected"
                          /\ t_err' = "none"
                          /\ t_classifier' = out.classifier
                          /\ t_scaler' = [t_scaler EXCEPT
                                            !.mean_ = Take(@, gene_index),
                                            !.var_ = Take(@, gene_index),
                                            !.scale_ = Take(@, gene_index),
                                            !.n_features_in_ = Len(gene_index)]
    /\ UNCHANGED <<t_in, t_indata, t_model>>

\* train(): model finalization, lines 184-189
TPackage ==
    /\ \/ t_pc = "fitted" /\ ~t_in.params.feature_selection
       \/ t_pc = "selected"
    /\ t_pc' = "done"
    /\ t_classifier' = [t_classifier EXCEPT !.features = t_genes]
    /\ t_model' = [made |-> TRUE, classifier |-> t_classifier', scaler |-> t_scaler]
    /\ UNCHANGED <<t_in, t_err, t_indata, t_genes, t_scaled, t_scaler>>

-----------------------------------------------------------------------------
(* Specifications: each exercises one part of the program, the others idle *)

IdleClassifier ==
    /\ model = LoadedModel(1)
    /\ adata = NoDataset
    /\ indata = <<>>
    /\ indata_genes = <<>>
    /\ clf = "none"
    /\ err = "none"
    /\ phases = <<>>
    /\ result = NoResult
    /\ runs = 0

IdleVote ==
    /\ predictions = [predicted_labels |-> <<>>, over_clustering |-> <<>>,
                      majority_voting |-> <<>>]
    /\ vote_arg = <<>>
    /\ vote_err = "none"
    /\ votes = 0

IdleOverCluster ==
    /\ oc_adata = [n_obs |-> 0, connectivities |-> 0, obs_over_clustering |-> FALSE]
    /\ oc_arg = 0
    /\ leiden = 0
    /\ graphs_built = 0
    /\ oc_calls = 0

IdleTrain ==
    /\ t_in = [X |-> <<>>, labels |-> <<>>, genes |-> <<>>,
               params |-> Params(FALSE, 100, 1000, 10, FALSE, 500)]
    /\ t_pc = "idle"
    /\ t_err = "none"
    /\ t_indata = <<>>
    /\ t_genes = <<>>
    /\ t_scaled = <<>>
    /\ t_scaler = NoScaler
    /\ t_classifier = NoClassifier
    /\ t_model = NoModel

\* the Classifier: construction and celltype()
Init == InitClassifier /\ IdleVote /\ IdleOverCluster /\ IdleTrain

Next ==
    \/ Construct /\ UNCHANGED <<voteVars, ocVars, trainVars>>
    \/ Celltype /\ UNCHANGED <<voteVars, ocVars, trainVars>>

Spec == Init /\ [][Next]_vars

\* majority_vote()
InitV == IdleClassifier /\ InitVote /\ IdleOverCluster /\ IdleTrain

NextV == MajorityVote /\ UNCHANGED <<clfVars, ocVars, trainVars>>

SpecVote == InitV /\ [][NextV]_vars

\* over_cluster()
InitOC == IdleClassifier /\ IdleVote /\ InitOverCluster /\ IdleTrain

NextOC == OverCluster /\ UNCHANGED <<clfVars, voteVars, trainVars>>

SpecOverCluster == InitOC /\ [][NextOC]_vars

\* train()
InitT == IdleClassifier /\ IdleVote /\ IdleOverCluster /\ InitTrain

NextT ==
    \/ TCheck /\ UNCHANGED <<clfVars, voteVars, ocVars>>
    \/ TFilter /\ UNCHANGED <<clfVars, voteVars, ocVars>>
    \/ TScale /\ UNCHANGED <<clfVars, voteVars, ocVars>>
    \/ TClip /\ UNCHANGED <<clfVars, voteVars, ocVars>>
    \/ TFit /\ UNCHANGED <<clfVars, voteVars, ocVars>>
    \/ TSelect /\ UNCHANGED <<clfVars, voteVars, ocVars>>
    \/ TPackage /\ UNCHANGED <<clfVars, voteVars, ocVars>>

SpecTrain == InitT /\ [][NextT]_vars

\* the two standardizations: a run is either a Classifier's or a train() call
InitS == Init \/ InitT

NextS == (t_pc = "idle" /\ Next) \/ NextT

SpecScaling == InitS /\ [][NextS]_vars

-----------------------------------------------------------------------------
(* Claims about Classifier.celltype *)

CelltypeStep == runs' = runs + 1

\* C1 (as claimed): a celltype() call leaves the loaded model as it was: the
\* feature list, the weight matrix, n_features_in_ and the scaler's mean and
\* scale are the same after the call as before it.
C1_ModelNotMutated ==
    [][CelltypeStep =>
        /\ model'.features = model.features
        /\ model'.coef_ = model.coef_
        /\ model'.n_features_in_ = model.n_features_in_
        /\ model'.mean_ = model.mean_
        /\ model'.scale_ = model.scale_]_vars

\* the genes of G that are in I, in the order of G
InOrderOf(G, I) == Take(G, Where(IsIn(G, I)))

\* C2 (as claimed): the aligned columns are the genes of G \cap I in the
\* order of the model's gene list G.
C2_ColumnsInModelOrder ==
    [][CelltypeStep /\ Range(indata_genes) \cap Range(model.features) # {} =>
        indata_genes' = InOrderOf(model.features, indata_genes)]_vars

\* C2 (amended): the aligned columns are exactly the genes of G \cap I in the
\* order of the input's gene list I; column j holds the input's values of
\* its gene, standardized with the mean and scale stored at that gene's
\* position in G; the model's feature list and weights are reordered to the
\* same order.
C2_ColumnsInInputOrder ==
    [][CelltypeStep /\ Range(indata_genes) \cap Range(model.features) # {} =>
        LET G == model.features
            I == indata_genes
            A == indata_genes'
        IN  /\ Range(A) = Range(G) \cap Range(I)
            /\ \A i, j \in 1..Len(A) :
                  i < j => IndexOf(I, A[i]) < IndexOf(I, A[j])
            /\ model'.features = A
            /\ \A j \in 1..Len(A) :
                  /\ model'.coef_[j] = model.coef_[IndexOf(G, A[j])]
                  /\ \A c \in 1..Len(indata) :
                        indata'[c][j] =
                            ClipValue(QDiv(QSub(indata[c][IndexOf(I, A[j])],
                                                Fixed(model.mean_[IndexOf(G, A[j])])),
                                           Fixed(model.scale_[IndexOf(G, A[j])])))]_vars

\* a first call on a fresh model has aligned two genes that the input lists
\* in the opposite order to the model's
C2_Witness ==
    /\ runs = 1
    /\ result.made
    /\ Len(indata_genes) >= 2
    /\ indata_genes[1] > indata_genes[2]
    /\ model.features = indata_genes

\* C3 (as claimed): with no gene in common, celltype() fails with a
\* feature-mismatch error before scaling or prediction, and returns no result.
C3_EmptyIntersectionFailsFirst ==
    [][CelltypeStep /\ Range(indata_genes) \cap Range(model.features) = {} =>
        /\ err' # "none"
        /\ phases' = <<"match">>
        /\ ~result'.made]_vars

-----------------------------------------------------------------------------
(* Claims about Classifier.majority_vote *)

\* the number of cells of cluster k that were predicted as label l
VotesFor(l, k) ==
    Cardinality({i \in 1..Len(predictions.predicted_labels) :
                    /\ predictions.predicted_labels[i] = l
                    /\ predictions.over_clustering[i] = k})

\* C4: after a vote every cell holds, as majority_voting, the label with the
\* highest count among the cells of its cluster, and among several labels
\* with that count the lexicographically first one.
C4_MajorityLabel ==
    Voted(predictions) =>
        \A i \in 1..Len(predictions.predicted_labels) :
            LET k == predictions.over_clustering[i]
                m == predictions.majority_voting[i]
            IN  \A l \in Labels :
                    /\ VotesFor(l, k) <= VotesFor(m, k)
                    /\ VotesFor(l, k) = VotesFor(m, k) => m <= l

\* the tied cluster [A, A, B, B] has been voted: all four cells hold A
C4_Witness ==
    /\ predictions.predicted_labels = <<1, 1, 2, 2>>
    /\ predictions.over_clustering = <<1, 1, 1, 1>>
    /\ predictions.majority_voting = <<1, 1, 1, 1>>

\* C5: a call whose over_clustering vector is not as long as the predicted
\* labels raises a length-mismatch error and leaves the predictions as they were.
C5_LengthMismatchRejected ==
    [][votes' = votes + 1 /\ Len(vote_arg') # Len(predictions.predicted_labels) =>
        /\ vote_err' = "ValueError: length mismatch"
        /\ predictions' = predictions]_vars

\* a call with a longer vector has been rejected
C5_Witness ==
    /\ votes = 1
    /\ Len(vote_arg) > Len(predictions.predicted_labels)
    /\ vote_err = "ValueError: length mismatch"
    /\ ~Voted(predictions)

-----------------------------------------------------------------------------
(* Claims about Classifier.over_cluster *)

\* C6: without a resolution the clustering routine gets 5 below 5000 cells,
\* 10 below 20000, 15 below 40000 and 20 from 40000 on; a resolution the
\* caller supplies is handed over unchanged.
C6_Resolution ==
    oc_calls > 0 =>
        LET n == oc_adata.n_obs
        IN  /\ oc_arg # 0 => leiden = oc_arg
            /\ oc_arg = 0 /\ n < 5000 => leiden = 5
            /\ oc_arg = 0 /\ 5000 <= n /\ n < 20000 => leiden = 10
            /\ oc_arg = 0 /\ 20000 <= n /\ n < 40000 => leiden = 15
            /\ oc_arg = 0 /\ 40000 <= n => leiden = 20

\* a call without a resolution on exactly 5000 cells has used 10
C6_Witness ==
    /\ oc_calls > 0
    /\ oc_arg = 0
    /\ oc_adata.n_obs = 5000
    /\ leiden = 10

-----------------------------------------------------------------------------
(* Claims about loading and standardization *)

\* the matrix a constructed Classifier took its indata from
LoadedMatrix == IF MatrixMin(adata.X) < 0 THEN adata.raw_X ELSE adata.X

\* C7 (as claimed): a matrix is accepted only if every row's sum of
\* exp(value) - 1 is within 1 of 10000, in Classifier construction and in
\* train().
C7_EveryRowChecked ==
    /\ clf = "ready" =>
          \A c \in 1..Len(LoadedMatrix) : ~RowInvalid(LoadedMatrix[c])
    /\ t_pc \notin {"idle", "start", "failed"} =>
          \A r \in 1..Len(t_in.X) : ~RowInvalid(t_in.X[r].row)

\* C8: the standardized values are at most 10 and a value that is not above
\* 10 is kept as it is, however low, in celltype() and in train() alike.
C8_ClippedAbove ==
    [][/\ CelltypeStep =>
            \A j \in 1..Len(indata_genes') : \A c \in 1..Len(indata) :
                LET g == indata_genes'[j]
                    z == QDiv(QSub(indata[c][IndexOf(indata_genes, g)],
                                   Fixed(model.mean_[IndexOf(model.features, g)])),
                              Fixed(model.scale_[IndexOf(model.features, g)]))
                IN  /\ indata'[c][j][1] <= 10 * indata'[c][j][2]
                    /\ z[1] <= 10 * z[2] => indata'[c][j] = z
       /\ t_pc = "scaled" /\ t_pc' = "clipped" =>
            \A r \in 1..Len(t_scaled) : \A j \in 1..Len(t_scaled[r].row) :
                LET z == t_scaled[r].row[j]
                    y == t_scaled'[r].row[j]
                IN  /\ y[1] <= 0 \/ y[2] <= 100 * y[3]
                    /\ (z[1] <= 0 \/ z[2] <= 100 * z[3]) => y = z]_vars

\* train() has clipped a value above 10 and left a negative value alone
C8_Witness ==
    /\ t_pc = "clipped"
    /\ \E r \in 1..Len(t_scaled) : \E j \in 1..Len(t_scaled[r].row) :
          /\ t_scaled[r].row[j] = <<1, 100, 1>>
          /\ AboveClip(Transform(t_indata)[r].row[j])
    /\ \E r \in 1..Len(t_scaled) : \E j \in 1..Len(t_scaled[r].row) :
          t_scaled[r].row[j][1] = -1

-----------------------------------------------------------------------------
(* Claims about train *)

\* C9: in mini-batch mode with a batch size above the number of cells the
\* fit raises the insufficient-data error, and no classifier, partially
\* fitted or otherwise, comes out of it.
C9_BatchAboveCells ==
    [][/\ t_pc = "clipped"
       /\ t_in.params.mini_batch
       /\ t_in.params.batch_size > Cells(t_in.labels)
       => /\ t_pc' = "failed"
          /\ t_err' = "ValueError: fewer cells than the batch size"
          /\ t_classifier' = NoClassifier
          /\ t_classifier'.partial_fits = 0]_vars

\* the fit has failed on a batch size above the number of cells
C9_Witness ==
    /\ t_pc = "failed"
    /\ t_err = "ValueError: fewer cells than the batch size"
    /\ t_in.params.mini_batch
    /\ t_in.params.batch_size > Cells(t_in.labels)

\* the mean over the classes of the absolute weights of column j, times the
\* number of rows
AbsWeightSum(coef_, j) == SumSeq([r \in 1..Len(coef_) |-> Abs(coef_[r][j])])

SelectionStep ==
    /\ t_pc = "fitted"
    /\ t_in.params.feature_selection
    /\ t_classifier.fitted

\* C10 (as claimed): with K below the number of genes exactly K genes are
\* kept, the K of largest mean absolute weight across the classes; with K at
\* or above the number of genes the call fails.
C10_ExactlyTopK ==
    [][SelectionStep =>
        LET K == t_in.params.top_genes
            cols == 1..Len(t_genes)
        IN  IF Len(t_genes) <= K
            THEN t_pc' = "failed" /\ t_err' = "ValueError: fewer genes than top_genes"
            ELSE /\ t_pc' = "selected"
                 /\ Len(t_genes') = K
                 /\ \E T \in SUBSET cols :
                       /\ Cardinality(T) = K
                       /\ \A a \in T, b \in cols \ T :
                             AbsWeightSum(t_classifier.coef_, a)
                                >= AbsWeightSum(t_classifier.coef_, b)
                       /\ Range(t_genes') = {t_genes[j] : j \in T}]_vars

\* C10 (amended): with K below the number of genes the genes kept are the
\* union, over the rows of the weight matrix, of each row's K genes of
\* largest absolute weight, in their original order: at least K and at most
\* K times the number of rows; with K at or above the number of genes the
\* call fails.  The packaged model holds the genes kept as its features.
C10_UnionOfTopK ==
    [][/\ SelectionStep =>
            LET K == t_in.params.top_genes
                cols == 1..Len(t_genes)
                rows == 1..Len(t_classifier.coef_)
            IN  IF Len(t_genes) <= K
                THEN t_pc' = "failed" /\ t_err' = "ValueError: fewer genes than top_genes"
                ELSE /\ t_pc' = "selected"
                     /\ K <= Len(t_genes')
                     /\ Len(t_genes') <= K * Len(t_classifier.coef_)
                     /\ \A i, j \in 1..Len(t_genes') :
                           i < j => IndexOf(t_genes, t_genes'[i]) < IndexOf(t_genes, t_genes'[j])
                     /\ \E pick \in [rows -> SUBSET cols] :
                           /\ \A r \in rows :
                                 /\ Cardinality(pick[r]) = K
                                 /\ \A a \in pick[r], b \in cols \ pick[r] :
                                       Abs(t_classifier.coef_[r][a])
                                          >= Abs(t_classifier.coef_[r][b])
                           /\ Range(t_genes') = {t_genes[j] : j \in UNION {pick[r] : r \in rows}}
       /\ t_pc = "selected" /\ t_pc' = "done" =>
            t_model'.classifier.features = t_genes]_vars

\* a model has been packaged with more than K features
C10_Witness ==
    /\ t_pc = "done"
    /\ t_in.params.feature_selection
    /\ t_model.made
    /\ Len(t_model.classifier.features) > t_in.params.top_genes

\* the fit of line 163 in mini-batch mode, past the batch size check
MiniBatchFitStep ==
    /\ t_pc = "clipped"
    /\ t_pc' # "clipped"
    /\ t_in.params.mini_batch
    /\ ~InsufficientCells(Cells(t_in.labels), t_in.params.batch_size)

\* C11 (as claimed): in mini-batch mode every batch given to partial_fit
\* holds exactly batch_size cells, an epoch sweeps at most batch_number
\* batches and at most as many as there are full batches in the data, and
\* partial_fit is called epochs times that number of times in all, the
\* number being that of the batch starts of lines 110-111.
C11_BatchesSwept ==
    [][MiniBatchFitStep =>
        LET p == t_in.params
            no_cells == Cells(t_in.labels)
            starts == Starts(no_cells, p.batch_size, p.batch_number)
        IN  /\ t_classifier'.partial_fits = p.epochs * Len(starts)
            /\ t_classifier'.partial_fits > 0 =>
                  /\ \A i \in 1..Len(starts) : starts[i] + p.batch_size <= no_cells
                  /\ Len(starts) <= p.batch_number
                  /\ Len(starts) <= no_cells \div p.batch_size]_vars

-----------------------------------------------------------------------------
(* Claims about the neighbor graph of over_cluster *)

\* C12: a call of over_cluster() builds the neighbor graph when, and only
\* when, the dataset holds no 'connectivities' graph; a graph the dataset
\* holds is kept as it is, so that every call after the first reuses the
\* stored graph; and each call leaves the observation table without an
\* 'over_clustering' column.
C12_GraphBuiltOnce ==
    [][oc_calls' = oc_calls + 1 =>
        /\ graphs_built' # graphs_built <=> oc_adata.connectivities = 0
        /\ oc_adata.connectivities # 0 =>
              oc_adata'.connectivities = oc_adata.connectivities
        /\ oc_adata'.connectivities # 0
        /\ oc_calls >= 1 =>
              /\ graphs_built' = graphs_built
              /\ oc_adata'.connectivities = oc_adata.connectivities
        /\ ~oc_adata'.obs_over_clustering]_vars

\* two calls on a dataset that came without a graph: one graph was built, by
\* the first call, and it is the one stored after the second
C12_Witness ==
    /\ oc_calls = 2
    /\ graphs_built = 1
    /\ oc_adata.connectivities = 2
    /\ ~oc_adata.obs_over_clustering

-----------------------------------------------------------------------------
(* Claims about runs of celltype() that share one model *)

\* the model as it was loaded: the scaler keeps one mean per trained gene
FreshModel == LoadedModel(Len(model.mean_))

\* what celltype() makes of the matrix X over the genes given with model m
RunWith(m, X, genes) ==
    LET k_x_idx == Where(IsIn(genes, m.features))
        genes1  == Take(genes, k_x_idx)
        lr_idx  == FeatureIndex(m.features, genes1)
        X2      == Standardize([c \in 1..Len(X) |-> Take(X[c], k_x_idx)],
                               Take(m.mean_, lr_idx), Take(m.scale_, lr_idx))
    IN  [indata |-> X2, indata_genes |-> genes1,
         predicted_labels |-> IF Len(lr_idx) = 0 THEN <<>>
                              ELSE PredictLabels(X2, AlignedModel(m, lr_idx))]

\* C13 (as claimed): every run of celltype() on a shared model standardizes
\* each aligned gene with that gene's own trained mean and scale, hands the
\* classifier that gene's own weights, and ends with the aligned matrix and
\* the labels that the same run gives with a freshly loaded model.
C13_SameAsFreshModel ==
    [][CelltypeStep =>
        LET fresh == RunWith(FreshModel, indata, indata_genes)
        IN  /\ indata_genes' = fresh.indata_genes
            /\ indata' = fresh.indata
            /\ result'.predicted_labels = fresh.predicted_labels
            /\ \A j \in 1..Len(indata_genes') :
                  LET g == indata_genes'[j]
                  IN  /\ model'.coef_[j] = TrainedCoef(g)
                      /\ \A c \in 1..Len(indata) :
                            indata'[c][j] =
                               ClipValue(QDiv(QSub(indata[c][IndexOf(indata_genes, g)],
                                                   Fixed(TrainedMean(g))),
                                              Fixed(TrainedScale(g))))]_vars

\* C14: in a call of celltype() on a freshly loaded model the aligned
\* features are no more than the model's genes and no more than the input's
\* genes, and at every aligned position the column of the aligned matrix, the
\* mean and scale it was standardized with and the weights handed to the
\* classifier are those of one and the same gene.
C14_AlignedSameGene ==
    [][CelltypeStep /\ runs = 0 =>
        /\ Len(indata_genes') <= Len(model.features)
        /\ Len(indata_genes') <= Len(indata_genes)
        /\ model'.n_features_in_ = Len(indata_genes')
        /\ Len(model'.coef_) = Len(indata_genes')
        /\ model'.features = indata_genes'
        /\ \A c \in 1..Len(indata') : Len(indata'[c]) = Len(indata_genes')
        /\ \A j \in 1..Len(indata_genes') :
              LET g == indata_genes'[j]
              IN  /\ g \in Range(indata_genes) \cap Range(model.features)
                  /\ model'.coef_[j] = TrainedCoef(g)
                  /\ \A c \in 1..Len(indata) :
                        indata'[c][j] =
                           ClipValue(QDiv(QSub(indata[c][IndexOf(indata_genes, g)],
                                               Fixed(TrainedMean(g))),
                                          Fixed(TrainedScale(g))))]_vars

\* a first call on a fresh model has aligned two genes out of the input's
\* three, which the input lists in the opposite order to the model's
C14_Witness ==
    /\ runs = 1
    /\ result.made
    /\ Len(adata.var_names) = 3
    /\ Len(model.mean_) = 2
    /\ indata_genes = <<2, 1>>
    /\ model.coef_ = <<TrainedCoef(2), TrainedCoef(1)>>

-----------------------------------------------------------------------------
(* Claims about the genes and the columns in train *)

\* the scaler fitted on the column of gene g of the matrix train() was given
ScalerOfGene(g) == FitScaler(TakeColumns(t_in.X, <<IndexOf(t_in.genes, g)>>))

\* the clipped standardized values of gene g, one per run of cells
ScaledOfGene(g) ==
    LET Z == Transform(TakeColumns(t_in.X, <<IndexOf(t_in.genes, g)>>))
    IN  [r \in 1..Len(Z) |-> ClipTrain(Z[r].row[1])]

\* C15: train() keeps the gene list and the matrix columns in step: the
\* filter drops from both exactly the genes whose expression summed over the
\* cells is zero and keeps the order of the others; the standardized matrix
\* has one column per listed gene, that gene's; and the packaged model's
\* feature list, weight columns and scaler mean, variance and scale are as
\* many, for the same genes in the same order, with feature selection or
\* without.
C15_GenesAndColumnsInStep ==
    [][/\ t_pc = "checked" /\ t_pc' = "filtered" =>
            /\ Range(t_genes') =
                  {t_genes[k] : k \in {i \in 1..Len(t_genes) : ColSum(t_indata, i) # 0}}
            /\ \A i, j \in 1..Len(t_genes') :
                  i < j => IndexOf(t_genes, t_genes'[i]) < IndexOf(t_genes, t_genes'[j])
            /\ \A r \in 1..Len(t_indata') :
                  /\ Len(t_indata'[r].row) = Len(t_genes')
                  /\ \A j \in 1..Len(t_genes') :
                        t_indata'[r].row[j] =
                            t_indata[r].row[IndexOf(t_genes, t_genes'[j])]
       /\ t_pc' \in {"clipped", "fitted", "selected", "done"} =>
            \A r \in 1..Len(t_scaled') :
                /\ Len(t_scaled'[r].row) = Len(t_genes')
                /\ \A j \in 1..Len(t_genes') :
                      t_scaled'[r].row[j] = ScaledOfGene(t_genes'[j])[r]
       /\ t_pc' = "done" =>
            LET c == t_model'.classifier
                sc == t_model'.scaler
                n == Len(c.features)
            IN  /\ t_model'.made
                /\ c.features = t_genes'
                /\ Len(sc.mean_) = n /\ Len(sc.var_) = n /\ Len(sc.scale_) = n
                /\ sc.n_features_in_ = n
                /\ c.fitted => /\ c.coef_ # <<>>
                               /\ \A r \in 1..Len(c.coef_) : Len(c.coef_[r]) = n
                /\ \A j \in 1..n :
                      LET own == ScalerOfGene(c.features[j])
                      IN  /\ sc.mean_[j] = own.mean_[1]
                          /\ sc.var_[j] = own.var_[1]
                          /\ sc.scale_[j] = own.scale_[1]]_vars

\* a model has been packaged after the filter dropped a gene and the
\* selection dropped another
C15_Witness ==
    /\ t_pc = "done"
    /\ t_model.made
    /\ t_model.classifier.fitted
    /\ t_in.params.feature_selection
    /\ \E k \in 1..Len(t_in.genes) : ColSum(t_in.X, k) = 0
    /\ \E k \in 1..Len(t_in.genes) :
          /\ ColSum(t_in.X, k) # 0
          /\ t_in.genes[k] \notin Range(t_model.classifier.features)

====
